---------------------------- MODULE Spec2Model ----------------------------
(***************************************************************************)
(* Model of the travel assistant backend (src/main.py, src/services.py,    *)
(* src/schemas.py, src/config.py).                                         *)
(*                                                                         *)
(* Text is modelled as a sequence of one-character strings, so that        *)
(* strip, split, replace, slicing, formatting and parsing are computed.    *)
(* TLA+ string literals are ASCII: a CJK character or symbol of the source *)
(* is written as one token naming it ("zhuan" is the separator of weather  *)
(* conditions, "degC" the Celsius sign of the provider, "deg" the degree   *)
(* sign, "yen" the currency sign), and a literal message the code never    *)
(* looks into is one token naming the message.                             *)
(***************************************************************************)
EXTENDS Integers, Sequences, FiniteSets, TLC

VARIABLES
    pc,            \* where the request (or the function under check) stands
    request,       \* the TravelRequest record
    weather_info,  \* handler local: result of get_weather_info
    attractions,   \* handler local: result of get_attractions
    flight_info,   \* handler local: None or the result of get_flight_info
    itinerary,     \* handler local: result of generate_itinerary_with_llm
    response,      \* what the endpoint answered
    calls,         \* log of the lookups invoked and the outbound requests sent
    upstream,      \* what the providers answered (history of the environment)
    rnd,           \* the random draws of the get_flight_info call under check
    offer          \* the FlightInfo the current pass of its loop built

vars == <<pc, request, weather_info, attractions, flight_info, itinerary,
          response, calls, upstream, rnd, offer>>

----------------------------------------------------------------------------
(* Text helpers: Python's str operations on sequences of characters.       *)

Digits == <<"0", "1", "2", "3", "4", "5", "6", "7", "8", "9">>

\* str(n) for n >= 0
RECURSIVE Itoa(_)
Itoa(n) ==
    IF n < 10 THEN <<Digits[n + 1]>>
    ELSE Itoa(n \div 10) \o <<Digits[(n % 10) + 1]>>

\* f"{n:02d}" for n >= 0
Pad2(n) == IF n < 10 THEN <<"0">> \o Itoa(n) ELSE Itoa(n)

DigitVal(c) == CHOOSE d \in 0..9 : Digits[d + 1] = c

\* int(s) for a string of decimal digits
RECURSIVE Atoi(_)
Atoi(s) ==
    IF Len(s) = 0 THEN 0
    ELSE Atoi(SubSeq(s, 1, Len(s) - 1)) * 10 + DigitVal(s[Len(s)])

IsSpace(c) == c \in {" ", "\t", "\n"}

\* s.strip()
RECURSIVE LStrip(_)
LStrip(s) == IF Len(s) > 0 /\ IsSpace(Head(s)) THEN LStrip(Tail(s)) ELSE s

RECURSIVE RStrip(_)
RStrip(s) ==
    IF Len(s) > 0 /\ IsSpace(s[Len(s)])
    THEN RStrip(SubSeq(s, 1, Len(s) - 1)) ELSE s

Strip(s) == RStrip(LStrip(s))

\* c in s, for a one-character c
Contains(s, c) == \E i \in 1..Len(s) : s[i] = c

\* s.find(pat) + 1: where the leftmost occurrence of pat starts, 0 for none
Find(s, pat) ==
    LET starts == {i \in 1..(Len(s) - Len(pat) + 1) :
                      SubSeq(s, i, i + Len(pat) - 1) = pat}
    IN  IF starts = {} THEN 0
        ELSE CHOOSE i \in starts : \A j \in starts : i <= j

\* s.replace(pat, rep): leftmost non-overlapping occurrences
RECURSIVE ReplaceAll(_, _, _)
ReplaceAll(s, pat, rep) ==
    LET i == Find(s, pat)
    IN  IF i = 0 THEN s
        ELSE SubSeq(s, 1, i - 1) \o rep
             \o ReplaceAll(SubSeq(s, i + Len(pat), Len(s)), pat, rep)

\* s.split(c), for a one-character separator c
RECURSIVE SplitFrom(_, _, _)
SplitFrom(s, c, cur) ==
    IF Len(s) = 0 THEN <<cur>>
    ELSE IF Head(s) = c THEN <<cur>> \o SplitFrom(Tail(s), c, <<>>)
         ELSE SplitFrom(Tail(s), c, Append(cur, Head(s)))

Split(s, c) == SplitFrom(s, c, <<>>)

\* s[:n]
Take(s, n) == SubSeq(s, 1, IF Len(s) < n THEN Len(s) ELSE n)

\* s[a:b] with 0 <= a, Python slice semantics
Slice(s, a, b) == SubSeq(s, a + 1, IF Len(s) < b THEN Len(s) ELSE b)

\* "sep".join(parts)
RECURSIVE Join(_, _)
Join(parts, sep) ==
    IF Len(parts) = 0 THEN <<>>
    ELSE IF Len(parts) = 1 THEN parts[1]
         ELSE parts[1] \o sep \o Join(Tail(parts), sep)

\* concatenation of a sequence of texts
RECURSIVE Concat(_)
Concat(parts) == IF Len(parts) = 0 THEN <<>> ELSE Head(parts) \o Concat(Tail(parts))

----------------------------------------------------------------------------
(* Values as they arrive in JSON or in optional fields.                    *)

\* A JSON member: absent from the object, null, a string, or a number.
\* v holds the characters of a string (empty otherwise).
JAbsent == [t |-> "absent", v |-> <<>>]
JNull == [t |-> "null", v |-> <<>>]
JStr(s) == [t |-> "str", v |-> s]
JNum(s) == [t |-> "num", v |-> s]

\* a local that no statement has assigned yet
Unassigned == [t |-> "unassigned", v |-> <<>>]

\* Optional[str]
None == [some |-> FALSE, v |-> <<>>]
Some(s) == [some |-> TRUE, v |-> s]

\* Python truthiness of an Optional[str]: neither None nor ""
Truthy(o) == o.some /\ o.v # <<>>


----------------------------------------------------------------------------
(* What a provider answers to one outbound request.                        *)
(*   net  : "ok", or how the request failed: "timeout" (requests Timeout), *)
(*          "connection" (ConnectionError), "http_error" (raise_for_status *)
(*          raises HTTPError), "bad_json" (response.json() raises)         *)
(*   body : the decoded JSON document when net = "ok"                      *)

NetFailures == {"timeout", "connection", "http_error", "bad_json"}

----------------------------------------------------------------------------
(* WeatherLookup: services.get_weather_info                                *)

NA == <<"N", "/", "A">>
DegreeC == <<"deg", "C">>
WeatherUnknown == <<"wei zhi">>
WeatherDataFailed == <<"shu ju huo qu shi bai">>
WeatherServiceDown == <<"fu wu zan bu ke yong">>

\* schemas.WeatherInfo
WeatherInfo(date, day_temp, night_temp, day_weather, night_weather, wind) ==
    [date |-> date, day_temp |-> day_temp, night_temp |-> night_temp,
     day_weather |-> day_weather, night_weather |-> night_weather,
     wind |-> wind]

\* the sentinel returned when the forecast list is empty
WeatherEmptySentinel ==
    WeatherInfo(NA, NA, NA, WeatherDataFailed, WeatherDataFailed, NA)

\* the sentinel returned by the exception handler
WeatherErrorSentinel ==
    WeatherInfo(NA, NA, NA, WeatherServiceDown, WeatherServiceDown, NA)

\* One entry of the provider's "future" array: a JSON object with the
\* members temperature, weather, date, direct, or (shape "other") a JSON
\* value that is no object.
ForecastDay(temperature, weather, date, direct) ==
    [shape |-> "dict", temperature |-> temperature, weather |-> weather,
     date |-> date, direct |-> direct]

ForecastNotADict ==
    [shape |-> "other", temperature |-> JAbsent, weather |-> JAbsent,
     date |-> JAbsent, direct |-> JAbsent]

\* dict.get(key, default) on a member that holds a string or is absent
GetOr(member, default) == IF member.t = "absent" THEN default ELSE member.v

\* the part before "/" taken as the day temperature
ParseTemperature_DayFirst(day) ==
    LET temp_range == ReplaceAll(GetOr(day.temperature, NA), <<"degC">>, <<>>)
    IN  IF Contains(temp_range, "/") /\ temp_range # NA
        THEN LET temp_parts == Split(temp_range, "/")
             IN  [day_temp |-> IF Len(temp_parts) > 0
                               THEN temp_parts[1] \o DegreeC ELSE NA,
                  night_temp |-> IF Len(temp_parts) > 1
                                 THEN temp_parts[2] \o DegreeC ELSE NA]
        ELSE [night_temp |-> NA, day_temp |-> NA]

\* temperature "1/7degC": the part before "/" is the night temperature
ParseTemperature(day) ==
    LET temp_range == ReplaceAll(GetOr(day.temperature, NA), <<"degC">>, <<>>)
    IN  IF Contains(temp_range, "/") /\ temp_range # NA
        THEN LET temp_parts == Split(temp_range, "/")
             IN  [night_temp |-> IF Len(temp_parts) > 0
                                 THEN temp_parts[1] \o DegreeC ELSE NA,
                  day_temp |-> IF Len(temp_parts) > 1
                               THEN temp_parts[2] \o DegreeC ELSE NA]
        ELSE [night_temp |-> NA, day_temp |-> NA]

\* weather "X zhuan Y": X by day, Y by night
ParseWeather(day) ==
    LET weather_text == GetOr(day.weather, WeatherUnknown)
    IN  IF Contains(weather_text, "zhuan")
        THEN LET weather_parts == Split(weather_text, "zhuan")
             IN  [day_weather |-> IF Len(weather_parts) > 0
                                  THEN weather_parts[1] ELSE WeatherUnknown,
                  night_weather |-> IF Len(weather_parts) > 1
                                    THEN weather_parts[2] ELSE WeatherUnknown]
        ELSE [day_weather |-> weather_text, night_weather |-> weather_text]

\* The body of the loop raises: the entry is no object (no .get), the
\* temperature is no string (no .replace), the weather is no string (the
\* "in" test), or WeatherInfo rejects a null date or wind.
DayRaises(day) ==
    \/ day.shape # "dict"
    \/ day.temperature.t \in {"null", "num"}
    \/ day.weather.t \in {"null", "num"}
    \/ day.date.t = "null"
    \/ day.direct.t = "null"

\* one pass of the loop over future_weather
ParseDay(day) ==
    LET temp == ParseTemperature(day)
        cond == ParseWeather(day)
    IN  WeatherInfo(GetOr(day.date, <<>>), temp.day_temp, temp.night_temp,
                    cond.day_weather, cond.night_weather,
                    GetOr(day.direct, NA))

\* The weather provider's document: an object with error_code and result,
\* or (shape "other") a JSON value that is no object.  error_code is a
\* JSON member, compared with the number 0.  result.t is
\* "absent", "null", "empty" ({}), "dict" or "other" (a non-empty value
\* that is no object); future.t is "absent", "null", "list" or "other" (a
\* number).
WeatherFuture(t, v) == [t |-> t, v |-> v]
WeatherResult(t, future) == [t |-> t, future |-> future]
WeatherBody(error_code, result) ==
    [shape |-> "dict", error_code |-> error_code, result |-> result]
WeatherBodyNotADict ==
    [shape |-> "other", error_code |-> JAbsent,
     result |-> WeatherResult("absent", WeatherFuture("absent", <<>>))]

WeatherReply(net, body) == [net |-> net, body |-> body]

\* without the slice
ForecastWindow_Unbounded(future) == future

\* result.get("future", [])[:4]
ForecastWindow(future) == Take(future, 4)

\* The try block: exc names the exception that leaves it ("" for none),
\* weather_list is the list built when none does.
WeatherTry(reply) ==
    LET data == reply.body
        raise(e) == [exc |-> e, weather_list |-> <<>>]
        done(l) == [exc |-> "", weather_list |-> l]
    IN  IF reply.net # "ok" THEN raise(reply.net)
        ELSE IF data.shape # "dict" THEN raise("AttributeError")
        ELSE IF data.error_code = JNum(<<"0">>) /\ data.result.t \in {"dict", "other"}
        THEN IF data.result.t = "other" THEN raise("AttributeError")
             ELSE IF data.result.future.t = "absent" THEN done(<<>>)
             ELSE IF data.result.future.t # "list" THEN raise("TypeError")
             ELSE LET future_weather == ForecastWindow(data.result.future.v)
                  IN  IF \E i \in 1..Len(future_weather) :
                             DayRaises(future_weather[i])
                      THEN raise("Exception")
                      ELSE done([i \in 1..Len(future_weather) |->
                                    ParseDay(future_weather[i])])
        ELSE done(<<>>)

\* Which exceptions the handler of get_weather_info catches: all of them.
WeatherCatches(exc) == TRUE

\* get_weather_info(city) against one reply of the provider.  raised is
\* the exception that reaches the caller ("" for none), http the outbound
\* requests sent.
get_weather_info(city, reply) ==
    LET t == WeatherTry(reply)
        http == <<"GET weather">>
    IN  IF t.exc # ""
        THEN IF WeatherCatches(t.exc)
             THEN [raised |-> "", ret |-> <<WeatherErrorSentinel>>, http |-> http]
             ELSE [raised |-> t.exc, ret |-> <<>>, http |-> http]
        ELSE [raised |-> "",
              ret |-> IF Len(t.weather_list) > 0 THEN t.weather_list
                      ELSE <<WeatherEmptySentinel>>,
              http |-> http]

----------------------------------------------------------------------------
(* AttractionLookup: services.get_attractions                              *)

\* config.MAX_ATTRACTIONS
MAX_ATTRACTIONS == 6

AttractionsUnavailable == <<"jing dian xin xi zan bu ke yong">>
AttractionsFailed == <<"jing dian xin xi huo qu shi bai">>
ScenicType == <<"feng jing ming sheng">>

\* schemas.Attraction
Attraction(name, address, type, description) ==
    [name |-> name, address |-> address, type |-> type,
     description |-> description]

\* the sentinel returned when no attraction was built
AttractionEmptySentinel == Attraction(AttractionsUnavailable, <<>>, <<>>, <<>>)

\* the sentinel returned by the exception handler
AttractionErrorSentinel == Attraction(AttractionsFailed, <<>>, <<>>, <<>>)

\* One entry of the provider's "list" array: a JSON object with the members
\* name, province, city, content, or a JSON value that is no object.
Scenic(name, province, city, content) ==
    [shape |-> "dict", name |-> name, province |-> province, city |-> city,
     content |-> content]

ScenicNotADict ==
    [shape |-> "other", name |-> JAbsent, province |-> JAbsent,
     city |-> JAbsent, content |-> JAbsent]

\* f"{scenic.get(key, '')}": a null member formats as the text None
FormatMember(member) ==
    IF member.t = "null" THEN <<"N", "o", "n", "e">> ELSE member.v

\* the description: markup replaced, then cut to 100 characters and "..."
CleanContent(content) ==
    IF content # <<>>
    THEN LET cleaned == ReplaceAll(ReplaceAll(content, <<"<", "b", "r", ">">>, <<" ">>),
                                   <<" ", " ", " ", " ">>, <<" ">>)
         IN  IF Len(cleaned) > 100
             THEN Take(cleaned, 100) \o <<".", ".", ".">>
             ELSE cleaned
    ELSE content

\* The body of the loop raises: the entry is no object, the content is a
\* number (no .replace) or null (Attraction rejects description=None), or
\* Attraction rejects a null name.
ScenicRaises(scenic) ==
    \/ scenic.shape # "dict"
    \/ scenic.content.t \in {"null", "num"}
    \/ scenic.name.t = "null"

\* one pass of the loop over scenic_list
ParseScenic(scenic) ==
    Attraction(GetOr(scenic.name, <<>>),
               FormatMember(scenic.province) \o FormatMember(scenic.city),
               ScenicType,
               CleanContent(GetOr(scenic.content, <<>>)))

\* The attraction provider's document, shaped as the weather provider's:
\* result.t is "absent", "null", "empty", "dict" or "other"; list.t is
\* "absent", "null", "list" or "other" (a number).
ScenicList(t, v) == [t |-> t, v |-> v]
ScenicResult(t, list) == [t |-> t, list |-> list]
ScenicBody(error_code, result) ==
    [shape |-> "dict", error_code |-> error_code, result |-> result]
ScenicBodyNotADict ==
    [shape |-> "other", error_code |-> JAbsent,
     result |-> ScenicResult("absent", ScenicList("absent", <<>>))]

ScenicReply(net, body) == [net |-> net, body |-> body]

\* The try block of get_attractions
AttractionsTry(reply) ==
    LET data == reply.body
        raise(e) == [exc |-> e, attractions |-> <<>>]
        done(l) == [exc |-> "", attractions |-> l]
    IN  IF reply.net # "ok" THEN raise(reply.net)
        ELSE IF data.shape # "dict" THEN raise("AttributeError")
        ELSE IF data.error_code = JNum(<<"0">>) /\ data.result.t \in {"dict", "other"}
        THEN IF data.result.t = "other" THEN raise("AttributeError")
             ELSE IF data.result.list.t = "absent" THEN done(<<>>)
             ELSE IF data.result.list.t # "list" THEN raise("TypeError")
             ELSE LET scenic_list == Take(data.result.list.v, MAX_ATTRACTIONS)
                  IN  IF \E i \in 1..Len(scenic_list) :
                             ScenicRaises(scenic_list[i])
                      THEN raise("Exception")
                      ELSE done([i \in 1..Len(scenic_list) |->
                                    ParseScenic(scenic_list[i])])
        ELSE done(<<>>)

\* a handler for the exceptions of the requests library only
AttractionsCatches_RequestsOnly(exc) == exc \in NetFailures

\* Which exceptions the handler of get_attractions catches: all of them.
AttractionsCatches(exc) == TRUE

\* get_attractions(city) against one reply of the provider
get_attractions(city, reply) ==
    LET t == AttractionsTry(reply)
        http == <<"GET map">>
    IN  IF t.exc # ""
        THEN IF AttractionsCatches(t.exc)
             THEN [raised |-> "", ret |-> <<AttractionErrorSentinel>>, http |-> http]
             ELSE [raised |-> t.exc, ret |-> <<>>, http |-> http]
        ELSE [raised |-> "",
              ret |-> IF Len(t.attractions) > 0 THEN t.attractions
                      ELSE <<AttractionEmptySentinel>>,
              http |-> http]

----------------------------------------------------------------------------
(* FlightLookup: services.get_flight_info                                  *)

Beijing == <<"bei", "jing">>
Shanghai == <<"shang", "hai">>
Guangzhou == <<"guang", "zhou">>
Shenzhen == <<"shen", "zhen">>
Chengdu == <<"cheng", "du">>
Hangzhou == <<"hang", "zhou">>

\* airlines: code -> name, in the order of the dict
airlines ==
    << <<"CA", <<"zhong guo guo ji hang kong">> >>,
       <<"MU", <<"dong fang hang kong">> >>,
       <<"CZ", <<"nan fang hang kong">> >>,
       <<"HU", <<"hai nan hang kong">> >>,
       <<"ZH", <<"shen zhen hang kong">> >>,
       <<"MF", <<"xia men hang kong">> >>,
       <<"9C", <<"chun qiu hang kong">> >>,
       <<"KN", <<"zhong guo lian he hang kong">> >> >>

aircraft_types == <<"B737", "A320", "A321", "B787", "A330", "B777", "A350">>

\* city_pairs.get((departure_city, destination), default)
city_pairs(departure_city, destination, default) ==
    CASE departure_city = Beijing /\ destination = Shanghai -> 120
      [] departure_city = Shanghai /\ destination = Guangzhou -> 135
      [] departure_city = Beijing /\ destination = Guangzhou -> 180
      [] departure_city = Shenzhen /\ destination = Beijing -> 185
      [] departure_city = Chengdu /\ destination = Shanghai -> 150
      [] departure_city = Hangzhou /\ destination = Guangzhou -> 125
      [] OTHER -> default

HM(h1, h2, m1, m2) == <<h1, h2, ":", m1, m2>>

time_slots ==
    << <<HM("0", "6", "0", "0"), HM("0", "8", "0", "0")>>,
       <<HM("0", "9", "0", "0"), HM("1", "2", "0", "0")>>,
       <<HM("1", "3", "0", "0"), HM("1", "6", "0", "0")>>,
       <<HM("1", "7", "0", "0"), HM("2", "0", "0", "0")>>,
       <<HM("2", "1", "0", "0"), HM("2", "3", "0", "0")>> >>

\* the values random.choice draws the minute from
dep_minutes == {<<"0", "0">>, <<"1", "0">>, <<"2", "0">>, <<"3", "0">>,
                <<"4", "0">>, <<"5", "0">>}

seat_classes == <<"jing ji cang", "chao ji jing ji cang", "shang wu cang", "tou deng cang">>
discounts == << <<>>, <<"xue sheng jia 95 zhe">>, <<"hui yuan you hui">>,
               <<"xian shi te hui">>, <<"wang fan li jian">> >>

\* random.randint(int(dep_slot[0][:2]), int(dep_slot[1][:2])) draws from
SlotHours(dep_slot) == Atoi(Take(dep_slot[1], 2)) .. Atoi(Take(dep_slot[2], 2))

\* datetime.strptime(text, "%H:%M"): minutes since 1900-01-01 00:00
strptime(text) == Atoi(SubSeq(text, 1, 2)) * 60 + Atoi(SubSeq(text, 4, 5))

\* datetime.strftime("%H:%M") of a time given in minutes since 1900-01-01 00:00
strftime(minutes) == Pad2((minutes \div 60) % 24) \o <<":">> \o Pad2(minutes % 60)

Max(a, b) == IF a > b THEN a ELSE b

\* schemas.FlightInfo
FlightInfo(flight_number, departure_time, arrival_time, price, airline, aircraft_type, duration, punctuality_rate, seat_class, transfer, discount) ==
    [flight_number |-> flight_number, departure_time |-> departure_time,
     arrival_time |-> arrival_time, price |-> price, airline |-> airline,
     aircraft_type |-> aircraft_type, duration |-> duration,
     punctuality_rate |-> punctuality_rate, seat_class |-> seat_class,
     transfer |-> transfer, discount |-> discount]

\* The random draws of one pass of the loop, in the order the code draws:
\*   airline (index into airlines), slot (index into time_slots), dep_hour,
\*   dep_minute, jitter (randint(-10, 30)), price_jitter (randint(-100, 200)),
\*   flight_no (randint(1300, 8999)), aircraft (index), punctuality
\*   (randint(75, 95)), seat_class (index), connecting (random() < 0.2),
\*   discounted (random() < 0.3), discount (index)
\* The draws that decide neither a time nor a price are tied to the
\* airline and the slot drawn, which keeps the set of draws small.
FlightDraw(airline, slot, dep_hour, dep_minute, jitter, price_jitter) ==
    [airline |-> airline, slot |-> slot, dep_hour |-> dep_hour,
     dep_minute |-> dep_minute, jitter |-> jitter,
     price_jitter |-> price_jitter, flight_no |-> 1300 + 100 * airline,
     aircraft |-> 1 + (slot % 7), punctuality |-> 75 + slot,
     seat_class |-> 1 + (airline % 4), connecting |-> (slot = 5),
     discounted |-> (slot = 1), discount |-> 1 + (airline % 5)]

\* the price without its floor of 400
FlightPrice_NoFloor(dep_slot, airline_code, price_jitter) ==
    LET slot_price == IF dep_slot[1] = HM("0", "6", "0", "0") THEN 800 - 100
                      ELSE IF dep_slot[1] = HM("2", "1", "0", "0") THEN 800 - 150
                      ELSE 800 + 200
        base_price == IF airline_code \in {"9C", "KN"}
                      THEN slot_price - 300 ELSE slot_price
    IN  base_price + price_jitter

\* the price of one offer
FlightPrice(dep_slot, airline_code, price_jitter) ==
    LET slot_price == IF dep_slot[1] = HM("0", "6", "0", "0") THEN 800 - 100
                      ELSE IF dep_slot[1] = HM("2", "1", "0", "0") THEN 800 - 150
                      ELSE 800 + 200
        base_price == IF airline_code \in {"9C", "KN"}
                      THEN slot_price - 300 ELSE slot_price
    IN  Max(400, base_price + price_jitter)

\* the duration taken from the base duration, not from the elapsed time
FlightTimes_BaseOnly(departure_time, base_duration, jitter) ==
    [arrival_time |-> strftime(strptime(departure_time) + base_duration + jitter),
     duration |-> Itoa(base_duration \div 60) \o <<"h">>
                  \o Pad2(base_duration % 60) \o <<"m">>]

\* the arrival time and the duration of one offer
FlightTimes(departure_time, base_duration, jitter) ==
    LET dep_datetime == strptime(departure_time)
        arr_datetime == dep_datetime + (base_duration + jitter)
        duration_minutes == arr_datetime - dep_datetime
    IN  [arrival_time |-> strftime(arr_datetime),
         duration |-> Itoa(duration_minutes \div 60) \o <<"h">>
                      \o Pad2(duration_minutes % 60) \o <<"m">>]

\* one pass of the loop: the FlightInfo appended to mock_flights
MakeFlight(base_duration, d) ==
    LET airline_code == airlines[d.airline][1]
        airline_name == airlines[d.airline][2]
        dep_slot == time_slots[d.slot]
        departure_time == Pad2(d.dep_hour) \o <<":">> \o d.dep_minute
        times == FlightTimes(departure_time, base_duration, d.jitter)
        final_price == FlightPrice(dep_slot, airline_code, d.price_jitter)
    IN  FlightInfo(<<airline_code>> \o Itoa(d.flight_no),
                   departure_time, times.arrival_time,
                   <<"yen">> \o Itoa(final_price),
                   airline_name, <<aircraft_types[d.aircraft]>>,
                   times.duration, Itoa(d.punctuality) \o <<"%">>,
                   <<seat_classes[d.seat_class]>>,
                   IF d.connecting THEN <<"jing ting">> ELSE <<"zhi fei">>,
                   IF d.discounted THEN discounts[d.discount] ELSE <<>>)

\* the sort key: int(x.price[1:])
PriceKey(flight) == Atoi(Tail(flight.price))

\* list.sort(key=...): stable, ascending
RECURSIVE InsertByKey(_, _)
InsertByKey(sorted, flight) ==
    IF Len(sorted) = 0 THEN <<flight>>
    ELSE IF PriceKey(sorted[Len(sorted)]) <= PriceKey(flight)
         THEN Append(sorted, flight)
         ELSE Append(InsertByKey(SubSeq(sorted, 1, Len(sorted) - 1), flight),
                     sorted[Len(sorted)])

RECURSIVE SortByPrice(_)
SortByPrice(flights) ==
    IF Len(flights) = 0 THEN <<>>
    ELSE InsertByKey(SortByPrice(SubSeq(flights, 1, Len(flights) - 1)),
                     flights[Len(flights)])

\* the numbers of passes random.randint(4, 8) draws from
FlightCounts == 4..8

\* the loop: one flight per draw, in the order drawn
GenerateFlights(base_duration, draws) ==
    [i \in 1..Len(draws) |-> MakeFlight(base_duration, draws[i])]

\* without the sort
get_flight_info_Unsorted(departure_city, destination, date, r) ==
    [raised |-> "",
     ret |-> GenerateFlights(city_pairs(departure_city, destination, r.base), r.offers)]

\* get_flight_info(departure_city, destination, date) with the random draws
\* r = [base: randint(90, 180), offers: the draws of each pass].  Nothing in
\* the try block raises, so the handler returning [] is never entered.
get_flight_info(departure_city, destination, date, r) ==
    LET base_duration == city_pairs(departure_city, destination, r.base)
        mock_flights == GenerateFlights(base_duration, r.offers)
    IN  [raised |-> "", ret |-> SortByPrice(mock_flights)]

----------------------------------------------------------------------------
(* FallbackComposer: services.generate_fallback_itinerary                  *)

NL == <<"\n">>

\* the lines of one day
FallbackDay(day, weather, attraction_list) ==
    LET heading == <<"#", "#", " ", "di">> \o Itoa(day) \o <<"tian">> \o NL \o NL
        weather_line ==
            IF day <= Len(weather)
            THEN LET w == weather[day]
                 IN  <<"**tian qi:**", " ">> \o w.day_weather \o <<",", " ">>
                     \o w.day_temp \o NL \o NL
            ELSE <<>>
        day_attractions == Slice(attraction_list, (day - 1) * 2, day * 2 + 1)
        attraction_lines ==
            IF Len(day_attractions) > 0
            THEN <<"**tui jian jing dian:**">> \o NL
                 \o Concat([i \in 1..Len(day_attractions) |->
                              <<"-", " ">> \o day_attractions[i].name \o NL])
            ELSE <<>>
    IN  heading \o weather_line \o attraction_lines \o NL

generate_fallback_itinerary(destination, days, weather, attraction_list) ==
    <<"#", " ">> \o destination \o <<" ">> \o Itoa(days)
        \o <<"tian lv xing ji hua">> \o NL \o NL
        \o <<"*(ji chu xing cheng jian yi)*">> \o NL \o NL
        \o Concat([day \in 1..days |-> FallbackDay(day, weather, attraction_list)])
        \o NL \o <<"**wen xin ti shi:** jian yi">> \o NL

----------------------------------------------------------------------------
(* ItineraryComposer: services.generate_itinerary_with_llm                 *)

\* The generation endpoint's document.
\*   shape   : "dict", or "other" for a JSON value that is no object
\*   choices : t is "absent", "null", "list" or "other" (a number); v the list
\* A choice is an object (shape "dict") or not; its message.t is "absent",
\* "null", "dict" or "other"; the message's content is a JSON member.
LlmMessage(t, content) == [t |-> t, content |-> content]
LlmChoice(shape, message) == [shape |-> shape, message |-> message]
LlmChoices(t, v) == [t |-> t, v |-> v]
LlmBody(shape, choices) == [shape |-> shape, choices |-> choices]
LlmReply(net, body) == [net |-> net, body |-> body]

LlmNoBody == LlmBody("other", LlmChoices("absent", <<>>))

\* a second POST after a timeout
LlmRequests_RetryOnTimeout(reply) ==
    IF reply.net = "timeout" THEN <<"POST llm", "POST llm">> ELSE <<"POST llm">>

\* the outbound requests generate_itinerary_with_llm sends: one POST
LlmRequests(reply) == <<"POST llm">>

\* The try block: exc names the exception that leaves it ("" for none);
\* format_error is the else branch (no "choices", or an empty list);
\* content is result["choices"][0]["message"]["content"] otherwise.
LlmTry(reply) ==
    LET result == reply.body
        raise(e) == [exc |-> e, format_error |-> FALSE, content |-> JNull]
        bad_format == [exc |-> "", format_error |-> TRUE, content |-> JNull]
        return(c) == [exc |-> "", format_error |-> FALSE, content |-> c]
    IN  IF reply.net = "timeout" THEN raise("Timeout")
        ELSE IF reply.net # "ok" THEN raise("RequestException")
        ELSE IF result.shape # "dict" THEN raise("TypeError")
        ELSE IF result.choices.t = "absent" THEN bad_format
        ELSE IF result.choices.t # "list" THEN raise("TypeError")
        ELSE IF Len(result.choices.v) = 0 THEN bad_format
        ELSE LET choice == result.choices.v[1]
             IN  IF choice.shape # "dict" THEN raise("TypeError")
                 ELSE IF choice.message.t = "absent" THEN raise("KeyError")
                 ELSE IF choice.message.t # "dict" THEN raise("TypeError")
                 ELSE IF choice.message.content.t = "absent" THEN raise("KeyError")
                 ELSE return(choice.message.content)

\* handlers for the exceptions of the requests library only
LlmCatches_RequestsOnly(exc) == exc \in {"Timeout", "RequestException"}

\* Which exceptions the handlers of generate_itinerary_with_llm catch:
\* Timeout, RequestException, and Exception last, so all of them.
LlmCatches(exc) == TRUE

\* the arguments each handler passes to generate_fallback_itinerary
LlmFallback(destination, days, weather, attraction_list) ==
    JStr(generate_fallback_itinerary(destination, days, weather, attraction_list))

\* generate_itinerary_with_llm(...) against one reply of the endpoint.  ret
\* is the value returned: a JSON member, a string on every fallback path.
generate_itinerary_with_llm(destination, days, budget, weather, attraction_list, interests, start_date, reply) ==
    LET t == LlmTry(reply)
        http == LlmRequests(reply)
        fallback == LlmFallback(destination, days, weather, attraction_list)
    IN  IF t.exc # ""
        THEN IF LlmCatches(t.exc)
             THEN [raised |-> "", ret |-> fallback, http |-> http]
             ELSE [raised |-> t.exc, ret |-> JNull, http |-> http]
        ELSE IF t.format_error
             THEN [raised |-> "", ret |-> fallback, http |-> http]
             ELSE [raised |-> "", ret |-> t.content, http |-> http]

----------------------------------------------------------------------------
(* PlanOrchestrator: the endpoint POST /api/generate_plan                  *)

\* schemas.TravelRequest
TravelRequest(destination, days, budget, start_date, departure_city, interests) ==
    [destination |-> destination, days |-> days, budget |-> budget,
     start_date |-> start_date, departure_city |-> departure_city,
     interests |-> interests]

\* the request model without le=30
SchemaAccepts_NoUpperBound(req) == req.days >= 1

\* The constraints of the request model: days = Field(..., ge=1, le=30).
\* A body that violates them is rejected before the handler is called.
SchemaAccepts(req) == req.days >= 1 /\ req.days <= 30

\* the truth test alone, without .strip()
DestinationMissing_NoStrip(destination) == destination = <<>>

\* not request.destination or not request.destination.strip()
DestinationMissing(destination) ==
    destination = <<>> \/ Strip(destination) = <<>>

\* request.days < 1 or request.days > 30
DaysOutOfRange(days) == days < 1 \/ days > 30

\* "or" in place of "and"
WantsFlights_Either(req) == Truthy(req.departure_city) \/ Truthy(req.start_date)

\* request.departure_city and request.start_date
WantsFlights(req) == Truthy(req.departure_city) /\ Truthy(req.start_date)

\* schemas.TravelPlanResponse; flight_info is Optional
TravelPlanResponse(destination, itinerary_text, weather, attraction_list, flights, status, message) ==
    [destination |-> destination, itinerary |-> itinerary_text,
     weather_info |-> weather, attractions |-> attraction_list,
     flight_info |-> flights, status |-> status, message |-> message]

NoBody == TravelPlanResponse(<<>>, <<>>, <<>>, <<>>, None, "", "")

\* What the endpoint answers: kind is "none" while the request is served,
\* "success" (200, with the body), "validation_error" (the request model
\* rejected the body: 422) or "http_exception" (the handler raised
\* HTTPException with status_code and detail).
NoResponse ==
    [kind |-> "none", status_code |-> 0, detail |-> "", body |-> NoBody]
SuccessResponse(body) ==
    [kind |-> "success", status_code |-> 200, detail |-> "", body |-> body]
RequestValidationError ==
    [kind |-> "validation_error", status_code |-> 422,
     detail |-> "days: out of range", body |-> NoBody]
HTTPException(status_code, detail) ==
    [kind |-> "http_exception", status_code |-> status_code,
     detail |-> detail, body |-> NoBody]

\* except Exception as e: raise HTTPException(status_code=500, ...)
ServerError == HTTPException(500, "sheng cheng xing cheng shi bai")

\* TravelPlanResponse(itinerary=...) validates its fields: itinerary: str
ResponseModelAccepts(itinerary_value) == itinerary_value.t = "str"

NoWeatherReply == WeatherReply("none", WeatherBodyNotADict)
NoScenicReply == ScenicReply("none", ScenicBodyNotADict)
NoLlmReply == LlmReply("none", LlmNoBody)
NoUpstream ==
    [weather |-> NoWeatherReply, attractions |-> NoScenicReply, llm |-> NoLlmReply]
NoDraws == [base |-> 0, offers |-> <<>>]
NoOffer == FlightInfo(<<>>, <<>>, <<>>, <<>>, <<>>, <<>>, <<>>, <<>>, <<>>, <<>>, <<>>)

----------------------------------------------------------------------------
(* The environment: requests, provider replies and random draws            *)

\* the longest "future" array the weather provider sends
MaxFuture == 5
\* the longest "list" array the attraction provider sends
MaxScenic == 7

\* error_code: the number 0 (success), another number, the string "0", absent
ErrorCodes == {JNum(<<"0">>), JNum(<<"1">>), JStr(<<"0">>), JAbsent}
ErrorCodeOk == JNum(<<"0">>)
ErrorCodeFailed == JNum(<<"1">>)

Date1 == <<"1", "1", "-", "0", "1">>
Date2 == <<"1", "1", "-", "0", "2">>

DayRainThenCloud ==
    ForecastDay(JStr(<<"1", "/", "7", "degC">>),
                JStr(<<"xiao", "yu", "zhuan", "duo", "yun">>),
                JStr(Date1), JStr(<<"bei", "feng">>))
DaySunny ==
    ForecastDay(JStr(<<"7", "degC">>), JStr(<<"qing">>), JStr(Date2), JAbsent)
DayNoMembers == ForecastDay(JAbsent, JAbsent, JAbsent, JAbsent)
DayNullTemperature ==
    ForecastDay(JNull, JStr(<<"qing">>), JStr(Date1), JStr(<<"bei", "feng">>))
DayNullDate ==
    ForecastDay(JStr(<<"1", "/", "7", "degC">>), JStr(<<"qing">>), JNull, JAbsent)

ForecastDays ==
    {DayRainThenCloud, DaySunny, DayNoMembers, DayNullTemperature,
     DayNullDate, ForecastNotADict}

SeqsUpTo(S, n) == UNION {[1..k -> S] : k \in 0..n}

WeatherOk(l) ==
    WeatherReply("ok", WeatherBody(ErrorCodeOk, WeatherResult("dict", WeatherFuture("list", l))))

\* every reply of the weather provider the model considers
WeatherReplies ==
    {WeatherReply(f, WeatherBodyNotADict) : f \in NetFailures}
    \cup {WeatherReply("ok", WeatherBodyNotADict)}
    \cup {WeatherReply("ok", WeatherBody(ec, WeatherResult(rt, WeatherFuture(ft, <<>>)))) :
            ec \in ErrorCodes, rt \in {"absent", "null", "empty", "other", "dict"},
            ft \in {"absent", "null", "other"}}
    \cup {WeatherReply("ok", WeatherBody(ec, WeatherResult("dict", WeatherFuture("list", l)))) :
            ec \in ErrorCodes, l \in SeqsUpTo(ForecastDays, 2)}
    \cup {WeatherOk(l) : l \in SeqsUpTo(ForecastDays, MaxFuture)}

\* the replies of the weather provider while a plan is generated
PlanWeatherReplies ==
    {WeatherReply("timeout", WeatherBodyNotADict),
     WeatherOk(<<>>),
     WeatherOk(<<DayRainThenCloud>>),
     WeatherOk(<<DayRainThenCloud, DaySunny, DayNoMembers, DaySunny, DayRainThenCloud>>)}

GuGong == <<"gu", "gong">>
ChangCheng == <<"chang", "cheng">>
LongContent == [i \in 1..101 |-> "x"]
MarkupContent ==
    <<"a", "<", "b", "r", ">", "b", " ", " ", " ", " ", "c">>

ScenicPalace == Scenic(JStr(GuGong), JStr(Beijing), JStr(Beijing), JStr(MarkupContent))
ScenicWall == Scenic(JStr(ChangCheng), JAbsent, JNull, JStr(LongContent))
ScenicNamedAsSentinel == Scenic(JStr(AttractionsFailed), JAbsent, JAbsent, JAbsent)
ScenicNullName == Scenic(JNull, JStr(Beijing), JStr(Beijing), JStr(MarkupContent))
ScenicNullContent == Scenic(JStr(GuGong), JStr(Beijing), JStr(Beijing), JNull)
ScenicNumberContent == Scenic(JStr(GuGong), JStr(Beijing), JStr(Beijing), JNum(<<"5">>))

\* the entries that lists of every length are built from
ScenicEntries == {ScenicPalace, ScenicWall, ScenicNullName, ScenicNotADict}

\* the entries that are also tried alone and in pairs
ScenicMoreEntries ==
    ScenicEntries \cup {ScenicNamedAsSentinel, ScenicNullContent, ScenicNumberContent}

ScenicOk(l) ==
    ScenicReply("ok", ScenicBody(ErrorCodeOk, ScenicResult("dict", ScenicList("list", l))))

\* every reply of the attraction provider the model considers
ScenicReplies ==
    {ScenicReply(f, ScenicBodyNotADict) : f \in NetFailures}
    \cup {ScenicReply("ok", ScenicBodyNotADict)}
    \cup {ScenicReply("ok", ScenicBody(ec, ScenicResult(rt, ScenicList(lt, <<>>)))) :
            ec \in ErrorCodes, rt \in {"absent", "null", "empty", "other", "dict"},
            lt \in {"absent", "null", "other"}}
    \cup {ScenicReply("ok", ScenicBody(ec, ScenicResult("dict", ScenicList("list", l)))) :
            ec \in ErrorCodes, l \in SeqsUpTo(ScenicEntries, 2)}
    \cup {ScenicOk(l) : l \in SeqsUpTo(ScenicEntries, MaxScenic)}
    \cup {ScenicOk(l) : l \in SeqsUpTo(ScenicMoreEntries, 2)}

\* the replies of the attraction provider while a plan is generated
PlanScenicReplies ==
    {ScenicReply("connection", ScenicBodyNotADict),
     ScenicOk(<<>>),
     ScenicOk(<<ScenicPalace>>),
     ScenicOk(<<ScenicPalace, ScenicWall, ScenicNamedAsSentinel, ScenicPalace,
                ScenicWall, ScenicPalace, ScenicWall>>)}

GeneratedPlan == <<"#", " ", "plan">>

LlmContents == {JAbsent, JNull, JNum(<<"5">>), JStr(<<>>), JStr(GeneratedPlan)}

LlmFirstChoices ==
    {LlmChoice("other", LlmMessage("absent", JAbsent))}
    \cup {LlmChoice("dict", LlmMessage(t, JAbsent)) : t \in {"absent", "null", "other"}}
    \cup {LlmChoice("dict", LlmMessage("dict", c)) : c \in LlmContents}

LlmOk(choices) == LlmReply("ok", LlmBody("dict", choices))

\* every reply of the generation endpoint the model considers
LlmReplies ==
    {LlmReply(f, LlmNoBody) : f \in NetFailures}
    \cup {LlmReply("ok", LlmNoBody)}
    \cup {LlmOk(LlmChoices(t, <<>>)) : t \in {"absent", "null", "other", "list"}}
    \cup {LlmOk(LlmChoices("list", <<c>>)) : c \in LlmFirstChoices}
    \cup {LlmOk(LlmChoices("list",
                           <<LlmChoice("dict", LlmMessage("dict", JStr(GeneratedPlan))),
                             LlmChoice("other", LlmMessage("absent", JAbsent))>>))}

Budget == <<"zhong deng">>

\* the request bodies the model considers
Requests ==
    {TravelRequest(destination, days, Budget, start_date, departure_city, None) :
        destination \in {<<>>, <<" ">>, <<" ", "\t">>, Beijing},
        days \in {0, 1, 3, 30, 31},
        start_date \in {None, Some(<<>>), Some(Date1)},
        departure_city \in {None, Some(<<>>), Some(Shanghai)}}

\* the draws of one pass of the flight loop while a plan is generated
PlanFlightDraws ==
    {FlightDraw(1, 2, 9, <<"0", "0">>, 0, 0),
     FlightDraw(7, 5, 23, <<"5", "0">>, 30, -100)}

PlanFlightBases == {120}

\* the random draws of one call of get_flight_info: the base duration
\* drawn for an unknown city pair, and the draws of each pass
DrawsOf(bases, draws) ==
    {[base |-> b, offers |-> o] :
        b \in bases, o \in UNION {[1..n -> draws] : n \in FlightCounts}}

----------------------------------------------------------------------------
(* generate_travel_plan, one action per step of the handler                *)

Init ==
    /\ pc = "received"
    /\ request \in Requests
    /\ weather_info = <<>>
    /\ attractions = <<>>
    /\ flight_info = None
    /\ itinerary = Unassigned
    /\ response = NoResponse
    /\ calls = <<>>
    /\ upstream = NoUpstream
    /\ rnd = NoDraws
    /\ offer = NoOffer

\* The framework builds the TravelRequest from the body: a body the model
\* rejects is answered 422 and the handler is not called.
ReceiveRequest ==
    /\ pc = "received"
    /\ IF SchemaAccepts(request)
       THEN pc' = "validate" /\ response' = response
       ELSE pc' = "done" /\ response' = RequestValidationError
    /\ UNCHANGED <<request, weather_info, attractions, flight_info, itinerary,
                   calls, upstream, rnd, offer>>

\* the handler's own checks; except HTTPException: raise
ValidateInput ==
    /\ pc = "validate"
    /\ IF DestinationMissing(request.destination)
       THEN pc' = "done" /\ response' = HTTPException(400, "mu di di bu neng wei kong")
       ELSE IF DaysOutOfRange(request.days)
       THEN pc' = "done" /\ response' = HTTPException(400, "lv xing tian shu 1-30")
       ELSE pc' = "weather" /\ response' = response
    /\ UNCHANGED <<request, weather_info, attractions, flight_info, itinerary,
                   calls, upstream, rnd, offer>>

\* 1. weather_info = services.get_weather_info(request.destination)
WeatherStep ==
    /\ pc = "weather"
    /\ \E reply \in PlanWeatherReplies :
         LET r == get_weather_info(request.destination, reply)
         IN  /\ calls' = calls \o <<"get_weather_info">> \o r.http
             /\ upstream' = [upstream EXCEPT !.weather = reply]
             /\ IF r.raised # ""
                THEN pc' = "done" /\ response' = ServerError
                     /\ weather_info' = weather_info
                ELSE pc' = "attractions" /\ response' = response
                     /\ weather_info' = r.ret
    /\ UNCHANGED <<request, attractions, flight_info, itinerary, rnd, offer>>

\* 2. attractions = services.get_attractions(request.destination)
AttractionsStep ==
    /\ pc = "attractions"
    /\ \E reply \in PlanScenicReplies :
         LET r == get_attractions(request.destination, reply)
         IN  /\ calls' = calls \o <<"get_attractions">> \o r.http
             /\ upstream' = [upstream EXCEPT !.attractions = reply]
             /\ IF r.raised # ""
                THEN pc' = "done" /\ response' = ServerError
                     /\ attractions' = attractions
                ELSE pc' = "flights" /\ response' = response
                     /\ attractions' = r.ret
    /\ UNCHANGED <<request, weather_info, flight_info, itinerary, rnd, offer>>

\* 3. flight_info = None, or services.get_flight_info(...) when a departure
\* city and a start date were given
FlightStep ==
    /\ pc = "flights"
    /\ IF WantsFlights(request)
       THEN \E r \in DrawsOf(PlanFlightBases, PlanFlightDraws) :
              LET f == get_flight_info(request.departure_city.v, request.destination,
                                       request.start_date.v, r)
              IN  /\ calls' = Append(calls, "get_flight_info")
                  /\ IF f.raised # ""
                     THEN pc' = "done" /\ response' = ServerError
                          /\ flight_info' = flight_info
                     ELSE pc' = "itinerary" /\ response' = response
                          /\ flight_info' = Some(f.ret)
       ELSE /\ pc' = "itinerary"
            /\ UNCHANGED <<flight_info, calls, response>>
    /\ UNCHANGED <<request, weather_info, attractions, itinerary, upstream, rnd, offer>>

\* 4. itinerary = services.generate_itinerary_with_llm(...)
ItineraryStep ==
    /\ pc = "itinerary"
    /\ \E reply \in LlmReplies :
         LET r == generate_itinerary_with_llm(
                      request.destination, request.days, request.budget,
                      weather_info, attractions, request.interests,
                      request.start_date, reply)
         IN  /\ calls' = calls \o <<"generate_itinerary_with_llm">> \o r.http
             /\ upstream' = [upstream EXCEPT !.llm = reply]
             /\ IF r.raised # ""
                THEN pc' = "done" /\ response' = ServerError
                     /\ itinerary' = itinerary
                ELSE pc' = "respond" /\ response' = response
                     /\ itinerary' = r.ret
    /\ UNCHANGED <<request, weather_info, attractions, flight_info, rnd, offer>>

\* 5. response = schemas.TravelPlanResponse(...); return response.  The
\* response model raises on a field of the wrong type, which the handler's
\* except Exception turns into a 500.
RespondStep ==
    /\ pc = "respond"
    /\ pc' = "done"
    /\ response' =
         IF ResponseModelAccepts(itinerary)
         THEN SuccessResponse(TravelPlanResponse(
                  request.destination, itinerary.v, weather_info, attractions,
                  flight_info, "success", "xing cheng gui hua sheng cheng cheng gong"))
         ELSE ServerError
    /\ UNCHANGED <<request, weather_info, attractions, flight_info, itinerary,
                   calls, upstream, rnd, offer>>

Next ==
    \/ ReceiveRequest
    \/ ValidateInput
    \/ WeatherStep
    \/ AttractionsStep
    \/ FlightStep
    \/ ItineraryStep
    \/ RespondStep

Spec == Init /\ [][Next]_vars

----------------------------------------------------------------------------
(* The lookups on their own, against every reply and draw considered       *)

\* the request whose destination the lookups are called with
LookupRequest == TravelRequest(Beijing, 3, Budget, None, None, None)

InitLookup(where, requests) ==
    /\ pc = where
    /\ request \in requests
    /\ weather_info = <<>>
    /\ attractions = <<>>
    /\ flight_info = None
    /\ itinerary = Unassigned
    /\ response = NoResponse
    /\ calls = <<>>
    /\ upstream = NoUpstream
    /\ offer = NoOffer

InitWeather == InitLookup("get_weather_info", {LookupRequest}) /\ rnd = NoDraws

\* one call of get_weather_info(city)
WeatherLookup ==
    /\ pc = "get_weather_info"
    /\ \E reply \in WeatherReplies :
         LET r == get_weather_info(request.destination, reply)
         IN  /\ pc' = IF r.raised = "" THEN "returned" ELSE "raised"
             /\ weather_info' = r.ret
             /\ calls' = r.http
             /\ upstream' = [upstream EXCEPT !.weather = reply]
    /\ UNCHANGED <<request, attractions, flight_info, itinerary, response, rnd, offer>>

NextWeather == WeatherLookup

SpecWeather == InitWeather /\ [][NextWeather]_vars

InitAttractions == InitLookup("get_attractions", {LookupRequest}) /\ rnd = NoDraws

\* one call of get_attractions(city)
AttractionLookup ==
    /\ pc = "get_attractions"
    /\ \E reply \in ScenicReplies :
         LET r == get_attractions(request.destination, reply)
         IN  /\ pc' = IF r.raised = "" THEN "returned" ELSE "raised"
             /\ attractions' = r.ret
             /\ calls' = r.http
             /\ upstream' = [upstream EXCEPT !.attractions = reply]
    /\ UNCHANGED <<request, weather_info, flight_info, itinerary, response, rnd, offer>>

NextAttractions == AttractionLookup

SpecAttractions == InitAttractions /\ [][NextAttractions]_vars

\* the city pairs flights are looked up for: two of the table, one not in it
FlightRequests ==
    {TravelRequest(Shanghai, 3, Budget, Some(Date1), Some(Beijing), None),
     TravelRequest(Beijing, 3, Budget, Some(Date1), Some(Shenzhen), None),
     TravelRequest(Beijing, 3, Budget, Some(Date1), Some(Shanghai), None)}

\* the base durations drawn for a pair that is not in the table
FlightBases == {90, 180}

\* the base duration drawn while whole lists are generated
FlightListBases == {134}

\* the draws of one pass while whole lists are generated
FlightDraws ==
    {FlightDraw(1, 2, 9, <<"0", "0">>, 0, 0),
     FlightDraw(7, 1, 8, <<"5", "0">>, -10, -100),
     FlightDraw(8, 5, 23, <<"5", "0">>, 30, 200)}

InitFlight == InitLookup("get_flight_info", FlightRequests) /\ rnd = NoDraws

\* one call of get_flight_info(departure_city, destination, date)
FlightLookup ==
    /\ pc = "get_flight_info"
    /\ \E r \in DrawsOf(FlightListBases, FlightDraws) :
         LET f == get_flight_info(request.departure_city.v, request.destination,
                                  request.start_date.v, r)
         IN  /\ pc' = IF f.raised = "" THEN "returned" ELSE "raised"
             /\ flight_info' = Some(f.ret)
             /\ rnd' = r
    /\ UNCHANGED <<request, weather_info, attractions, itinerary, response,
                   calls, upstream, offer>>

NextFlight == FlightLookup

SpecFlight == InitFlight /\ [][NextFlight]_vars

\* the draws of one pass while a single pass of the loop is looked at:
\* every slot, hour and minute, with the ends of the jitters
OfferJitters == {-10, 0, 1, 30}
OfferPriceJitters == {-100, 0, 200}
OfferAirlines == {1, 7, 8}

OfferDraws ==
    {FlightDraw(a, slot, h, m, j, pj) :
        a \in OfferAirlines, slot \in 1..Len(time_slots),
        h \in 0..23, m \in dep_minutes, j \in OfferJitters,
        pj \in OfferPriceJitters}

InitOffer ==
    /\ InitLookup("flight_loop", FlightRequests)
    /\ rnd \in {[base |-> b, offers |-> <<>>] : b \in FlightBases}

\* one pass of the loop of get_flight_info, for the base duration of the
\* city pair: the draws of the pass and the FlightInfo it appends
FlightLoopPass ==
    /\ pc = "flight_loop"
    /\ \E d \in OfferDraws :
         /\ d.dep_hour \in SlotHours(time_slots[d.slot])
         /\ offer' = MakeFlight(city_pairs(request.departure_city.v,
                                           request.destination, rnd.base), d)
         /\ rnd' = [rnd EXCEPT !.offers = <<d>>]
    /\ pc' = "flight_appended"
    /\ UNCHANGED <<request, weather_info, attractions, flight_info, itinerary,
                   response, calls, upstream>>

NextOffer == FlightLoopPass

SpecOffer == InitOffer /\ [][NextOffer]_vars

\* the numbers and conditions forecast entries are written with
ParseNumbers == {<<>>, <<"1">>, <<"-", "3">>, <<"1", "2">>}
ParseConditions == {<<>>, <<"qing">>, <<"xiao", "yu">>}

TemperatureTexts ==
    {a \o <<"/">> \o b \o <<"degC">> : a \in ParseNumbers, b \in ParseNumbers}
    \cup {<<"7", "degC">>, NA}

WeatherTexts ==
    {x \o <<"zhuan">> \o y : x \in ParseConditions, y \in ParseConditions}
    \cup ParseConditions

\* well-formed forecast entries
ParseDays ==
    {ForecastDay(JStr(t), JStr(w), JStr(Date1), JStr(<<"bei", "feng">>)) :
        t \in TemperatureTexts, w \in WeatherTexts}

InitParse == InitLookup("get_weather_info", {LookupRequest}) /\ rnd = NoDraws

\* one call of get_weather_info(city) answered with a single forecast entry
ForecastEntryLookup ==
    /\ pc = "get_weather_info"
    /\ \E day \in ParseDays :
         LET reply == WeatherOk(<<day>>)
             r == get_weather_info(request.destination, reply)
         IN  /\ pc' = IF r.raised = "" THEN "returned" ELSE "raised"
             /\ weather_info' = r.ret
             /\ calls' = r.http
             /\ upstream' = [upstream EXCEPT !.weather = reply]
    /\ UNCHANGED <<request, attractions, flight_info, itinerary, response, rnd, offer>>

NextParse == ForecastEntryLookup

SpecParse == InitParse /\ [][NextParse]_vars

\* the longest plan the fallback is composed for
MaxPlanDays == 5

\* the forecast and the attractions the fallback is composed from: records
\* told apart by their texts
SampleWeather ==
    [i \in 1..4 |-> WeatherInfo(Date1, Itoa(i) \o DegreeC, Itoa(i) \o DegreeC,
                                <<"w", Itoa(i)[1]>>, <<"n", Itoa(i)[1]>>, NA)]

SampleAttractions ==
    [i \in 1..MAX_ATTRACTIONS |->
        Attraction(<<"a", Itoa(i)[1]>>, Beijing, ScenicType, <<>>)]

InitFallback ==
    /\ pc = "generate_fallback_itinerary"
    /\ request \in {TravelRequest(Beijing, n, Budget, None, None, None) :
                       n \in 1..MaxPlanDays}
    /\ weather_info \in {Take(SampleWeather, k) : k \in 1..4}
    /\ attractions \in {Take(SampleAttractions, k) : k \in 1..MAX_ATTRACTIONS}
    /\ flight_info = None
    /\ itinerary = Unassigned
    /\ response = NoResponse
    /\ calls = <<>>
    /\ upstream = NoUpstream
    /\ rnd = NoDraws
    /\ offer = NoOffer

\* one call of generate_fallback_itinerary(destination, days, weather, attractions)
FallbackCall ==
    /\ pc = "generate_fallback_itinerary"
    /\ itinerary' = JStr(generate_fallback_itinerary(request.destination, request.days,
                                                     weather_info, attractions))
    /\ pc' = "composed"
    /\ UNCHANGED <<request, weather_info, attractions, flight_info, response,
                   calls, upstream, rnd, offer>>

NextFallback == FallbackCall

SpecFallback == InitFallback /\ [][NextFallback]_vars

----------------------------------------------------------------------------
(* Properties                                                              *)

\* empty, or whitespace only
Blank(text) == \A i \in 1..Len(text) : text[i] \in {" ", "\t", "\n"}

DaysValid == request.days >= 1 /\ request.days <= 30

ValidRequest == ~Blank(request.destination) /\ DaysValid

\* both a departure city and a start date were supplied, neither empty
FlightsRequested ==
    /\ request.departure_city.some /\ request.departure_city.v # <<>>
    /\ request.start_date.some /\ request.start_date.v # <<>>

Range(seq) == {seq[i] : i \in 1..Len(seq)}

IsPrefix(a, b) == Len(a) <= Len(b) /\ SubSeq(b, 1, Len(a)) = a

\* C1 as stated: a request whose destination is empty or whitespace only
\* is answered with a 400 client error, no lookup or generation call is
\* made for it, and no partial response is returned.
C1_BlankDestinationIs400 ==
    Blank(request.destination) =>
        /\ calls = <<>>
        /\ pc = "done" => /\ response.kind = "http_exception"
                          /\ response.status_code = 400
                          /\ response.body = NoBody

\* C1, amended: a request whose destination is empty or whitespace only is
\* answered with a client validation error: 400 by the handler when days is
\* within 1..30, 422 by the request model when days is outside it too.  In
\* both cases no lookup or generation call is made and the answer carries
\* no part of a plan.
C1_BlankDestinationRejected ==
    Blank(request.destination) =>
        /\ calls = <<>>
        /\ pc \in {"received", "validate", "done"}
        /\ weather_info = <<>> /\ attractions = <<>> /\ itinerary = Unassigned
        /\ pc = "done" =>
             /\ response.body = NoBody
             /\ IF DaysValid
                THEN response.kind = "http_exception" /\ response.status_code = 400
                ELSE response.kind = "validation_error" /\ response.status_code = 422

\* a whitespace-only destination with days in range was answered 400
C1_Witness ==
    /\ pc = "done"
    /\ request.destination = <<" ", "\t">>
    /\ request.days = 3
    /\ response.status_code = 400

\* C2: a request with days < 1 or days > 30 is answered with a validation
\* error by the request model, before the handler runs and so before any
\* lookup or generation call.
C2_DaysOutOfRangeRejected ==
    ~DaysValid =>
        /\ calls = <<>>
        /\ pc \in {"received", "done"}
        /\ weather_info = <<>> /\ attractions = <<>> /\ itinerary = Unassigned
        /\ pc = "done" => /\ response.kind = "validation_error"
                          /\ response.status_code = 422
                          /\ response.body = NoBody

\* a request for 31 days to a named destination was rejected
C2_Witness ==
    /\ pc = "done"
    /\ request.days = 31
    /\ request.destination = Beijing
    /\ response.kind = "validation_error"

\* C3 as stated: every valid request ends, whatever the providers and the
\* generation endpoint answered, with a success response that carries at
\* least one weather record, at least one attraction and a non-empty
\* itinerary text.
C3_ValidRequestSucceeds ==
    (pc = "done" /\ ValidRequest) =>
        /\ response.kind = "success"
        /\ response.body.status = "success"
        /\ Len(response.body.weather_info) >= 1
        /\ Len(response.body.attractions) >= 1
        /\ response.body.itinerary # <<>>

\* the generation call failed: timeout, network failure, HTTP error
\* status, undecodable or non-object body, missing or empty "choices",
\* or a first choice without a message holding a content
LlmCallFailed(reply) ==
    \/ reply.net # "ok"
    \/ reply.body.shape # "dict"
    \/ reply.body.choices.t # "list"
    \/ Len(reply.body.choices.v) = 0
    \/ reply.body.choices.v[1].shape # "dict"
    \/ reply.body.choices.v[1].message.t # "dict"
    \/ reply.body.choices.v[1].message.content.t = "absent"

ExpectedCalls ==
    <<"get_weather_info", "GET weather", "get_attractions", "GET map">>
    \o (IF FlightsRequested THEN <<"get_flight_info">> ELSE <<>>)
    \o <<"generate_itinerary_with_llm", "POST llm">>

\* C5: the lookups are invoked in the order weather, attractions, flights
\* (when requested), itinerary; each of them and each outbound request is
\* made at most once per request, also after a failure.
C5_CallsInOrderOnce ==
    /\ IsPrefix(calls, ExpectedCalls)
    /\ \A i, j \in 1..Len(calls) : calls[i] = calls[j] => i = j
    /\ pc = "respond" => calls = ExpectedCalls
    /\ response.kind = "success" => calls = ExpectedCalls

\* a request with flights was answered after the weather provider and the
\* generation endpoint both timed out, each asked once
C5_Witness ==
    /\ pc = "done"
    /\ response.kind = "success"
    /\ upstream.weather.net = "timeout"
    /\ upstream.llm.net = "timeout"
    /\ calls = <<"get_weather_info", "GET weather", "get_attractions", "GET map",
                 "get_flight_info", "generate_itinerary_with_llm", "POST llm">>

\* C6: on a valid request the flight lookup is invoked exactly when both a
\* departure city and a start date were supplied; the response then
\* carries a flight_info of 4 to 8 entries, and a null flight_info otherwise.
C6_FlightsIffRequested ==
    /\ ("get_flight_info" \in Range(calls)) => FlightsRequested
    /\ pc \in {"itinerary", "respond"} =>
         /\ ("get_flight_info" \in Range(calls)) <=> FlightsRequested
         /\ flight_info.some <=> FlightsRequested
    /\ response.kind = "success" =>
         /\ ("get_flight_info" \in Range(calls)) <=> FlightsRequested
         /\ response.body.flight_info.some <=> FlightsRequested
         /\ response.body.flight_info.some =>
              /\ Len(response.body.flight_info.v) >= 4
              /\ Len(response.body.flight_info.v) <= 8
         /\ ~FlightsRequested => response.body.flight_info = None

\* a request with a departure city and a start date answered with eight flights
C6_Witness ==
    /\ response.kind = "success"
    /\ FlightsRequested
    /\ Len(response.body.flight_info.v) = 8

Min(a, b) == IF a < b THEN a ELSE b

\* the weather provider failed: no reply, a body that is no object, an
\* error_code other than the number 0, no result object, no or an empty
\* forecast array, or an entry among the first four that cannot be parsed
WeatherFailed(reply) ==
    \/ reply.net # "ok"
    \/ reply.body.shape # "dict"
    \/ reply.body.error_code # ErrorCodeOk
    \/ reply.body.result.t # "dict"
    \/ reply.body.result.future.t # "list"
    \/ Len(reply.body.result.future.v) = 0
    \/ \E i \in 1..Min(4, Len(reply.body.result.future.v)) :
         DayRaises(reply.body.result.future.v[i])

\* a record with "N/A" fields and an unavailability marker as its condition
IsWeatherSentinel(w) ==
    /\ w.date = NA /\ w.day_temp = NA /\ w.night_temp = NA /\ w.wind = NA
    /\ w.day_weather \in {WeatherDataFailed, WeatherServiceDown}
    /\ w.night_weather = w.day_weather

\* C7: get_weather_info never raises and returns 1 to 4 records: exactly one
\* sentinel record after any failure of the provider, and otherwise one
\* record per forecast entry, in the provider's order, for the first four
\* entries at most.
C7_WeatherSentinelOrForecast ==
    pc # "get_weather_info" =>
        /\ pc = "returned"
        /\ Len(weather_info) >= 1
        /\ Len(weather_info) <= 4
        /\ calls = <<"GET weather">>
        /\ IF WeatherFailed(upstream.weather)
           THEN /\ Len(weather_info) = 1
                /\ IsWeatherSentinel(weather_info[1])
           ELSE LET future == upstream.weather.body.result.future.v
                IN  /\ Len(weather_info) = Min(4, Len(future))
                    /\ \A i \in 1..Len(weather_info) :
                         weather_info[i] = ParseDay(future[i])

\* five entries, the fifth of them no object: the first four are returned
C7_Witness ==
    /\ pc = "returned"
    /\ upstream.weather.net = "ok"
    /\ Len(upstream.weather.body.result.future.v) = 5
    /\ upstream.weather.body.result.future.v[5] = ForecastNotADict
    /\ Len(weather_info) = 4
    /\ weather_info[1] = ParseDay(DayRainThenCloud)
    /\ weather_info[4] = ParseDay(DaySunny)
    /\ weather_info[1].day_weather = <<"xiao", "yu">>

\* the attraction provider failed: no reply, a body that is no object, an
\* error_code other than the number 0, no result object, no or an empty
\* list, or an entry among the first MAX_ATTRACTIONS that cannot be parsed
AttractionsFailedReply(reply) ==
    \/ reply.net # "ok"
    \/ reply.body.shape # "dict"
    \/ reply.body.error_code # ErrorCodeOk
    \/ reply.body.result.t # "dict"
    \/ reply.body.result.list.t # "list"
    \/ Len(reply.body.result.list.v) = 0
    \/ \E i \in 1..Min(MAX_ATTRACTIONS, Len(reply.body.result.list.v)) :
         ScenicRaises(reply.body.result.list.v[i])

\* an entry with an unavailability name and nothing else
IsAttractionSentinel(a) ==
    /\ a.name \in {AttractionsUnavailable, AttractionsFailed}
    /\ a.address = <<>> /\ a.type = <<>> /\ a.description = <<>>

\* C8: get_attractions never raises and returns 1 to MAX_ATTRACTIONS
\* entries: a single sentinel entry after any failure (network, timeout,
\* a payload without its error_code, result or list, a non-success
\* error_code), and no list holds a sentinel entry next to real entries.
C8_AttractionsSentinelOrEntries ==
    pc # "get_attractions" =>
        /\ pc = "returned"
        /\ Len(attractions) >= 1
        /\ Len(attractions) <= MAX_ATTRACTIONS
        /\ calls = <<"GET map">>
        /\ AttractionsFailedReply(upstream.attractions) =>
             /\ Len(attractions) = 1
             /\ IsAttractionSentinel(attractions[1])
        /\ (\E i \in 1..Len(attractions) : IsAttractionSentinel(attractions[i])) =>
             /\ Len(attractions) = 1
             /\ AttractionsFailedReply(upstream.attractions)
        /\ ~AttractionsFailedReply(upstream.attractions) =>
             LET list == upstream.attractions.body.result.list.v
             IN  /\ Len(attractions) = Min(MAX_ATTRACTIONS, Len(list))
                 /\ \A i \in 1..Len(attractions) :
                      attractions[i] = ParseScenic(list[i])

\* seven entries were sent, the seventh no object, and six were returned
C8_Witness ==
    /\ pc = "returned"
    /\ upstream.attractions.net = "ok"
    /\ Len(upstream.attractions.body.result.list.v) = 7
    /\ upstream.attractions.body.result.list.v[7] = ScenicNotADict
    /\ Len(attractions) = MAX_ATTRACTIONS
    /\ attractions[1].name = GuGong
    /\ Len(attractions[2].description) = 103

\* C9: get_flight_info returns 4 to 8 flights, never none, in non-decreasing
\* order of the number after the currency sign of the price.
C9_FlightsSortedByPrice ==
    pc # "get_flight_info" =>
        /\ pc = "returned"
        /\ flight_info.some
        /\ Len(flight_info.v) >= 4
        /\ Len(flight_info.v) <= 8
        /\ Len(flight_info.v) = Len(rnd.offers)
        /\ \A i \in 1..(Len(flight_info.v) - 1) :
             Atoi(Tail(flight_info.v[i].price))
                 <= Atoi(Tail(flight_info.v[i + 1].price))

\* eight flights, the first one generated being the dearest and returned last
C9_Witness ==
    /\ pc = "returned"
    /\ Len(flight_info.v) = 8
    /\ rnd.offers[1].price_jitter = 200
    /\ rnd.offers[1].slot = 5
    /\ rnd.offers[8].slot = 1
    /\ flight_info.v[1].price = <<"yen", "4", "0", "0">>
    /\ Atoi(Tail(flight_info.v[1].price)) < Atoi(Tail(flight_info.v[8].price))

\* the minutes of a duration text "<hours>h<mm>m"
DurationMinutes(text) ==
    LET h == Find(text, <<"h">>)
    IN  Atoi(SubSeq(text, 1, h - 1)) * 60 + Atoi(SubSeq(text, h + 1, Len(text) - 1))

\* the base duration of the table for the city pairs it holds
TableDuration(departure_city, destination) ==
    city_pairs(departure_city, destination, 0)

\* C10: for the offer of one pass, elapsed = base duration + jitter, with
\* the jitter in -10..30 and the base duration taken from the city-pair
\* table or from 90..180; elapsed is positive and shorter than a day,
\* arrival_time is departure_time + elapsed modulo 24 hours, and duration
\* is elapsed written as hours, "h", two-digit minutes, "m".
C10_ArrivalAndDuration ==
    pc = "flight_appended" =>
        LET d == rnd.offers[1]
            table == TableDuration(request.departure_city.v, request.destination)
            base == IF table # 0 THEN table ELSE rnd.base
            elapsed == base + d.jitter
        IN  /\ d.jitter >= -10 /\ d.jitter <= 30
            /\ table = 0 => (base >= 90 /\ base <= 180)
            /\ table # 0 => table \in {120, 135, 180, 185, 150, 125}
            /\ elapsed > 0
            /\ elapsed < 24 * 60
            /\ strptime(offer.arrival_time)
                 = (strptime(offer.departure_time) + elapsed) % (24 * 60)
            /\ Len(offer.arrival_time) = 5
            /\ offer.duration = Itoa(elapsed \div 60) \o <<"h">>
                                \o Pad2(elapsed % 60) \o <<"m">>
            /\ DurationMinutes(offer.duration) = elapsed
            /\ Len(offer.duration)
                 = Len(Itoa(elapsed \div 60)) + 4

\* a flight of 3h35m that leaves at 23:50 and lands at 03:25
C10_Witness ==
    /\ pc = "flight_appended"
    /\ request.departure_city.v = Shenzhen
    /\ rnd.offers[1].jitter = 30
    /\ offer.departure_time = <<"2", "3", ":", "5", "0">>
    /\ offer.arrival_time = <<"0", "3", ":", "2", "5">>
    /\ offer.duration = <<"3", "h", "3", "5", "m">>

\* the time-of-day adjustment of a band: -100 early, -150 late, +200 otherwise
BandAdjustment(slot) ==
    IF time_slots[slot][1] = HM("0", "6", "0", "0") THEN -100
    ELSE IF time_slots[slot][1] = HM("2", "1", "0", "0") THEN -150
    ELSE 200

\* the airline-tier adjustment: -300 for the two low-cost airlines
AirlineAdjustment(airline) ==
    IF airlines[airline][1] \in {"9C", "KN"} THEN -300 ELSE 0

\* C11: the number in the price of an offer is max(400, 800 + t + a + j)
\* for the adjustment t of the band drawn, the adjustment a of the airline
\* drawn and the jitter j in -100..200; hence it lies within 400..1200.
C11_PriceFormula ==
    pc = "flight_appended" =>
        LET d == rnd.offers[1]
            p == Atoi(Tail(offer.price))
            raw == 800 + BandAdjustment(d.slot) + AirlineAdjustment(d.airline)
                       + d.price_jitter
        IN  /\ d.price_jitter >= -100 /\ d.price_jitter <= 200
            /\ Head(offer.price) = "yen"
            /\ offer.price = <<"yen">> \o Itoa(p)
            /\ p = (IF raw > 400 THEN raw ELSE 400)
            /\ p >= 400
            /\ p <= 1200

\* a late flight of a low-cost airline with the lowest jitter: 250 raised to 400
C11_Witness ==
    /\ pc = "flight_appended"
    /\ rnd.offers[1].slot = 5
    /\ airlines[rnd.offers[1].airline][1] = "9C"
    /\ rnd.offers[1].price_jitter = -100
    /\ offer.price = <<"yen", "4", "0", "0">>

\* C12: a temperature "A/B degC" gives night_temp "A deg C" and day_temp
\* "B deg C"; a condition "X zhuan Y" gives day_weather X and night_weather
\* Y; a condition without "zhuan" gives both as the condition itself.
C12_ForecastEntryParsed ==
    pc # "get_weather_info" =>
        LET day == upstream.weather.body.result.future.v[1]
            t == day.temperature.v
            c == day.weather.v
            w == weather_info[1]
        IN  /\ pc = "returned"
            /\ Len(weather_info) = 1
            /\ \A a \in ParseNumbers, b \in ParseNumbers :
                 t = a \o <<"/">> \o b \o <<"degC">> =>
                     /\ w.night_temp = a \o <<"deg", "C">>
                     /\ w.day_temp = b \o <<"deg", "C">>
            /\ \A x \in ParseConditions, y \in ParseConditions :
                 c = x \o <<"zhuan">> \o y =>
                     /\ w.day_weather = x
                     /\ w.night_weather = y
            /\ (\A i \in 1..Len(c) : c[i] # "zhuan") =>
                 /\ w.day_weather = c
                 /\ w.night_weather = c

\* "-3/12 degC" and "xiao yu zhuan qing" were parsed
C12_Witness ==
    /\ pc = "returned"
    /\ upstream.weather.body.result.future.v[1].temperature.v
         = <<"-", "3", "/", "1", "2", "degC">>
    /\ upstream.weather.body.result.future.v[1].weather.v
         = <<"xiao", "yu", "zhuan", "qing">>
    /\ weather_info[1].night_temp = <<"-", "3", "deg", "C">>
    /\ weather_info[1].day_temp = <<"1", "2", "deg", "C">>
    /\ weather_info[1].day_weather = <<"xiao", "yu">>
    /\ weather_info[1].night_weather = <<"qing">>

\* where the sections of the composed text start: the "##" headings
HeadingStarts ==
    {i \in 1..(Len(itinerary.v) - 1) :
        itinerary.v[i] = "#" /\ itinerary.v[i + 1] = "#"}

\* where the section of day d starts: its heading "## di <d> tian"
HeadingOf(d) ==
    {i \in HeadingStarts :
        LET h == <<"#", "#", " ", "di">> \o Itoa(d) \o <<"tian">>
        IN  i + Len(h) - 1 <= Len(itinerary.v)
            /\ SubSeq(itinerary.v, i, i + Len(h) - 1) = h}

\* the text of the section of day d, up to the next heading or the end
SectionOf(d) ==
    LET start == CHOOSE i \in HeadingOf(d) : TRUE
        later == {j \in HeadingStarts : j > start}
        stop == IF later = {} THEN Len(itinerary.v)
                ELSE (CHOOSE j \in later : \A k \in later : j <= k) - 1
    IN  SubSeq(itinerary.v, start, stop)

\* the names of the attractions a section lists, in the order listed
ListedIn(section) ==
    LET names == {attractions[i].name : i \in 1..Len(attractions)}
        starts(i) == i + 3 <= Len(section) /\ section[i] = "-" /\ section[i + 1] = " "
                     /\ SubSeq(section, i + 2, i + 3) \in names
        at == {i \in 1..Len(section) : starts(i)}
        nth(k) == CHOOSE i \in at : Cardinality({j \in at : j < i}) = k - 1
    IN  [k \in 1..Cardinality(at) |-> SubSeq(section, nth(k) + 2, nth(k) + 3)]

\* the attractions at the indices (d-1)*2 .. d*2, counted from 0, that exist
WindowOf(d) ==
    LET first == (d - 1) * 2 + 1
        last == Min(d * 2 + 1, Len(attractions))
    IN  [k \in 1..(IF last >= first THEN last - first + 1 ELSE 0) |->
            attractions[first + k - 1].name]

\* one section per day, in increasing order of the day
SectionsInOrder ==
    /\ Cardinality(HeadingStarts) = request.days
    /\ \A d \in 1..request.days : Cardinality(HeadingOf(d)) = 1
    /\ \A d \in 1..(request.days - 1) :
         \A i \in HeadingOf(d), j \in HeadingOf(d + 1) : i < j

\* the section of day d has a weather line exactly when d <= len(weather),
\* and the line is written from weather[d-1]
WeatherLineIffForecast ==
    \A d \in 1..request.days :
        LET line == <<"**tian qi:**", " ">>
            section == SectionOf(d)
            at == {i \in 1..Len(section) : section[i] = "**tian qi:**"}
        IN  /\ (at # {}) <=> (d <= Len(weather_info))
            /\ d <= Len(weather_info) =>
                 LET w == weather_info[d]
                     shown == line \o w.day_weather \o <<",", " ">> \o w.day_temp
                 IN  \E i \in at :
                        /\ i + Len(shown) - 1 <= Len(section)
                        /\ SubSeq(section, i, i + Len(shown) - 1) = shown

\* the section of day d lists the window of day d, in list order
WindowListed ==
    \A d \in 1..request.days : ListedIn(SectionOf(d)) = WindowOf(d)

\* the section of every day lists two or three attractions
TwoOrThreeListed ==
    \A d \in 1..request.days : Len(ListedIn(SectionOf(d))) \in {2, 3}

\* C13: generate_fallback_itinerary returns a text with one section per day
\* 1..days in increasing order; the section of day d has a weather line
\* exactly when d <= len(weather), written from weather[d-1], and lists two
\* or three attractions: those at the indices (d-1)*2 .. d*2 in list order.
C13_FallbackSections ==
    pc = "composed" =>
        /\ itinerary.t = "str"
        /\ SectionsInOrder
        /\ WeatherLineIffForecast
        /\ WindowListed
        /\ TwoOrThreeListed

\* the departure time lies within the band drawn for the offer
DepartureInBand ==
    LET band == time_slots[rnd.offers[1].slot]
        dep == strptime(offer.departure_time)
    IN  strptime(band[1]) <= dep /\ dep <= strptime(band[2])

\* the minute of the departure time is a multiple of ten
DepartureAligned ==
    /\ Len(offer.departure_time) = 5
    /\ strptime(offer.departure_time) % 10 = 0

\* the price carries the adjustment of the band drawn for the offer
PriceOfBand ==
    LET d == rnd.offers[1]
        raw == 800 + BandAdjustment(d.slot) + AirlineAdjustment(d.airline)
                   + d.price_jitter
    IN  Atoi(Tail(offer.price)) = (IF raw > 400 THEN raw ELSE 400)

\* C14: the departure time of an offer lies within the band drawn for it
\* (06:00-08:00, 09:00-12:00, 13:00-16:00, 17:00-20:00 or 21:00-23:00), its
\* minute is a multiple of ten, and the price adjustment is that of the band.
C14_DepartureWithinBand ==
    pc = "flight_appended" =>
        /\ rnd.offers[1].slot \in 1..5
        /\ DepartureInBand
        /\ DepartureAligned
        /\ PriceOfBand

=============================================================================
